---- MODULE Spec2Model ----
(***************************************************************************)
(* Model of the token-management facade of vaultapi (auth.go): the nine    *)
(* operations of the Auth interface, each one request/response handler on  *)
(* top of the transport primitives get / post / list / delete.             *)
(*                                                                         *)
(* Strings are TLA+ strings (TLC evaluates Len, \o and SubSeq on them).    *)
(* An error value is its chain of messages, outermost first: the nil error *)
(* is << >>, errors.Wrapf(e, m) puts m in front of e, and Error() joins    *)
(* the chain with ": ".                                                     *)
(***************************************************************************)
EXTENDS Integers, Sequences, FiniteSets, TLC

(***************************************************************************)
(* Strings and bytes                                                       *)
(***************************************************************************)
\* The printable ASCII characters in ascending byte order (0x20 .. 0x7e,
\* without the backquote, which a TLA+ string cannot hold).
Ascii ==
  " !\"#$%&'()*+,-./0123456789:;<=>?@ABCDEFGHIJKLMNOPQRSTUVWXYZ[\\]^_abcdefghijklmnopqrstuvwxyz{|}~"

Chr(s, i) == SubSeq(s, i, i)

Rest(s) == SubSeq(s, 2, Len(s))

\* The byte order of a one-character string (its position in Ascii).
Ord(c) == CHOOSE i \in 1..Len(Ascii) : Chr(Ascii, i) = c

\* Go's a < b on strings: bytewise lexicographic order.
RECURSIVE StrLess(_, _)
StrLess(a, b) ==
  IF b = "" THEN FALSE
  ELSE IF a = "" THEN TRUE
  ELSE IF Chr(a, 1) = Chr(b, 1) THEN StrLess(Rest(a), Rest(b))
  ELSE Ord(Chr(a, 1)) < Ord(Chr(b, 1))

(***************************************************************************)
(* sort.Strings: the keys in ascending order                               *)
(***************************************************************************)
RECURSIVE Insert(_, _)
Insert(x, s) ==
  IF s = << >> THEN << x >>
  ELSE IF StrLess(s[1], x) THEN << s[1] >> \o Insert(x, Tail(s))
  ELSE << x >> \o s

RECURSIVE SortStrings(_)
SortStrings(s) ==
  IF s = << >> THEN << >> ELSE Insert(s[1], SortStrings(Tail(s)))

(***************************************************************************)
(* strconv.Itoa, fmt's %q, encoding/json                                   *)
(***************************************************************************)
Digits == "0123456789"

RECURSIVE UItoa(_)
UItoa(n) ==
  IF n < 10 THEN Chr(Digits, n + 1)
  ELSE UItoa(n \div 10) \o Chr(Digits, (n % 10) + 1)

Itoa(n) == IF n < 0 THEN "-" \o UItoa(-n) ELSE UItoa(n)

\* strconv.Quote on printable ASCII: double quotes, with " and \ escaped.
QuoteChar(c) ==
  IF c = "\"" THEN "\\\"" ELSE IF c = "\\" THEN "\\\\" ELSE c

RECURSIVE QuoteBody(_)
QuoteBody(s) ==
  IF s = "" THEN "" ELSE QuoteChar(Chr(s, 1)) \o QuoteBody(Rest(s))

Quote(s) == "\"" \o QuoteBody(s) \o "\""

\* encoding/json string encoding on printable ASCII (HTML escaping is on).
JsonChar(c) ==
  IF c = "\"" THEN "\\\""
  ELSE IF c = "\\" THEN "\\\\"
  ELSE IF c = "<" THEN "\\u003c"
  ELSE IF c = ">" THEN "\\u003e"
  ELSE IF c = "&" THEN "\\u0026"
  ELSE c

RECURSIVE JsonEscape(_)
JsonEscape(s) ==
  IF s = "" THEN "" ELSE JsonChar(Chr(s, 1)) \o JsonEscape(Rest(s))

JsonString(s) == "\"" \o JsonEscape(s) \o "\""

JsonBool(b) == IF b THEN "true" ELSE "false"

RECURSIVE JsonElems(_)
JsonElems(ss) ==
  IF Len(ss) = 1 THEN JsonString(ss[1])
  ELSE JsonString(ss[1]) \o "," \o JsonElems(Tail(ss))

\* A []string: null when nil, otherwise an array (nil and empty are both
\* << >> here; the model's inputs use nil for the empty slice).
JsonStrings(ss) == IF ss = << >> THEN "null" ELSE "[" \o JsonElems(ss) \o "]"

(***************************************************************************)
(* Errors                                                                  *)
(***************************************************************************)
NoErr == << >>

\* errors.Errorf(msg) / errors.New(msg)
Errorf(msg) == << msg >>

\* errors.Wrapf(e, msg), errors.Wrap(e, msg): nil stays nil.
Wrapf(e, msg) == IF e = NoErr THEN NoErr ELSE << msg >> \o e

\* err.Error()
RECURSIVE ErrorString(_)
ErrorString(e) ==
  IF e = << >> THEN ""
  ELSE IF Len(e) = 1 THEN e[1]
  ELSE e[1] \o ": " \o ErrorString(Tail(e))

(***************************************************************************)
(* time.Duration and Duration.Seconds()                                    *)
(*                                                                         *)
(* A Duration is an int64 count of nanoseconds.  TLC's integers have 32    *)
(* bits, so a duration d is held as the quotient and remainder that        *)
(* Seconds() starts from: sec = |d / Second|, nsec = |d % Second| (Go's /  *)
(* and % truncate toward zero, so both carry d's sign, kept in neg).       *)
(*                                                                         *)
(* Seconds() returns float64(sec) + float64(nsec)/1e9.  A float64 in       *)
(* [0, 1) is held exactly, as the sequence of its binary fraction digits;  *)
(* the division and the addition each round to nearest, ties to even, at   *)
(* MantissaBits significant bits, as IEEE 754 binary64 does.               *)
(***************************************************************************)
Second == 1000000000

MantissaBits == 53

\* The first n binary fraction digits of r / Second, for 0 <= r < Second.
RECURSIVE QuoBits(_, _)
QuoBits(r, n) ==
  IF n = 0 THEN << >>
  ELSE IF 2 * r >= Second THEN << 1 >> \o QuoBits(2 * r - Second, n - 1)
  ELSE << 0 >> \o QuoBits(2 * r, n - 1)

\* What is left of r / Second below its first n binary digits.
RECURSIVE QuoRem(_, _)
QuoRem(r, n) ==
  IF n = 0 THEN r
  ELSE IF 2 * r >= Second THEN QuoRem(2 * r - Second, n - 1)
  ELSE QuoRem(2 * r, n - 1)

\* The number of zero digits before the first one of r / Second (r > 0).
RECURSIVE LeadZeros(_)
LeadZeros(r) == IF 2 * r >= Second THEN 0 ELSE 1 + LeadZeros(2 * r)

\* The number of bits of n (n > 0).
RECURSIVE BitLen(_)
BitLen(n) == IF n < 2 THEN 1 ELSE 1 + BitLen(n \div 2)

\* bits + one unit in the last place; carry is the overflow into the units.
RECURSIVE IncrBits(_)
IncrBits(bits) ==
  IF bits = << >> THEN [carry |-> 1, bits |-> << >>]
  ELSE IF bits[Len(bits)] = 0
    THEN [carry |-> 0, bits |-> SubSeq(bits, 1, Len(bits) - 1) \o << 1 >>]
  ELSE LET front == IncrBits(SubSeq(bits, 1, Len(bits) - 1))
       IN  [carry |-> front.carry, bits |-> front.bits \o << 0 >>]

\* Round the binary fraction 0.bits (plus something smaller than its last
\* place when sticky) to k >= 1 fraction digits: to nearest, ties to even.
RoundBits(bits, k, sticky) ==
  IF Len(bits) <= k THEN [carry |-> 0, bits |-> bits]
  ELSE LET kept == SubSeq(bits, 1, k)
           below == sticky \/ \E i \in (k + 2)..Len(bits) : bits[i] = 1
           up == bits[k + 1] = 1 /\ (below \/ kept[k] = 1)
       IN  IF up THEN IncrBits(kept) ELSE [carry |-> 0, bits |-> kept]

\* float64(nsec) / 1e9 for 0 <= nsec < Second: the quotient correctly rounded.
FloatQuo(nsec) ==
  IF nsec = 0 THEN [carry |-> 0, bits |-> << >>]
  ELSE LET z == LeadZeros(nsec)
       IN  RoundBits(QuoBits(nsec, z + MantissaBits + 1), z + MantissaBits,
                     QuoRem(nsec, z + MantissaBits + 1) # 0)

\* float64(sec) + q: sec has BitLen(sec) of the mantissa's bits (at most 34
\* for an int64 of nanoseconds), the rest are fraction digits.
FloatAdd(sec, q) ==
  IF sec = 0 THEN [int |-> q.carry, bits |-> q.bits]
  ELSE IF q.carry = 1 THEN [int |-> sec + 1, bits |-> << >>]
  ELSE LET r == RoundBits(q.bits, MantissaBits - BitLen(sec), FALSE)
       IN  [int |-> sec + r.carry, bits |-> r.bits]

\* d.Seconds()
Seconds(d) ==
  LET f == FloatAdd(d.sec, FloatQuo(d.nsec))
  IN  [neg |-> d.neg, int |-> f.int, bits |-> f.bits]

\* int(f): the conversion drops the fraction (truncation toward zero).
FloatToInt(f) == IF f.neg THEN -f.int ELSE f.int

\* strconv.Itoa(int(increment.Seconds()))
IncrementParam(increment) == Itoa(FloatToInt(Seconds(increment)))

\* fixup(prefix, path, [2]string{key, value}): the request path with one
\* query parameter.
fixup(prefix, path, param) ==
  prefix \o "/" \o path \o "?" \o param[1] \o "=" \o param[2]

ZeroDuration == [neg |-> FALSE, sec |-> 0, nsec |-> 0]

\* A Duration as the decimal text of its int64 nanoseconds.
RECURSIVE Pad(_, _)
Pad(s, n) == IF Len(s) >= n THEN s ELSE Pad("0" \o s, n)

DurationNanos(d) ==
  (IF d.neg /\ (d.sec # 0 \/ d.nsec # 0) THEN "-" ELSE "") \o
  (IF d.sec = 0 THEN UItoa(d.nsec) ELSE UItoa(d.sec) \o Pad(UItoa(d.nsec), 9))

(***************************************************************************)
(* Request bodies: json.Marshal of the three request types                 *)
(***************************************************************************)
RECURSIVE Join(_, _)
Join(ss, sep) ==
  IF ss = << >> THEN ""
  ELSE IF Len(ss) = 1 THEN ss[1]
  ELSE ss[1] \o sep \o Join(Tail(ss), sep)

Member(key, value) == JsonString(key) \o ":" \o value

JsonObject(members) == "{" \o Join(members, ",") \o "}"

\* A member tagged omitempty is left out when its value is the zero value.
OmitEmpty(empty, key, value) ==
  IF empty THEN << >> ELSE << Member(key, value) >>

ZeroTokenOptions ==
  [Policies |-> << >>, NoDefaultPolicy |-> FALSE, Orphan |-> FALSE,
   Renewable |-> FALSE, DisplayName |-> "", MaxUses |-> 0,
   TTL |-> ZeroDuration, MaxTTL |-> ZeroDuration, Period |-> ZeroDuration]

\* json.Marshal(opts) for a TokenOptions.  The tag of Period reads
\* "period,omitmempty": the unknown option is ignored, so period is always
\* written.
MarshalTokenOptions(o) ==
  JsonObject(
    OmitEmpty(o.Policies = << >>, "policies", JsonStrings(o.Policies)) \o
    OmitEmpty(~o.NoDefaultPolicy, "no_default_policy", JsonBool(o.NoDefaultPolicy)) \o
    OmitEmpty(~o.Orphan, "no_parent", JsonBool(o.Orphan)) \o
    OmitEmpty(~o.Renewable, "renewable", JsonBool(o.Renewable)) \o
    OmitEmpty(o.DisplayName = "", "display_name", JsonString(o.DisplayName)) \o
    OmitEmpty(o.MaxUses = 0, "num_uses", Itoa(o.MaxUses)) \o
    OmitEmpty(o.TTL = ZeroDuration, "ttl", DurationNanos(o.TTL)) \o
    OmitEmpty(o.MaxTTL = ZeroDuration, "explicit_max_ttl", DurationNanos(o.MaxTTL)) \o
    << Member("period", DurationNanos(o.Period)) >>)

\* json.Marshal(lookupToken{Token: id})
MarshalLookupToken(t) == JsonObject(<< Member("token", JsonString(t.Token)) >>)

ZeroTokenRoleOptions ==
  [Name |-> "", AllowedPolicies |-> "", DisallowedPolicies |-> "",
   Orphan |-> FALSE, Period |-> "", Renewable |-> FALSE, ExplicitMaxTTL |-> 0,
   PathSuffix |-> "", BoundCIDRs |-> << >>]

\* json.Marshal(roleData) for a TokenRoleOptions.
MarshalTokenRoleOptions(r) ==
  JsonObject(<<
    Member("role_name", JsonString(r.Name)),
    Member("allowed_policies", JsonString(r.AllowedPolicies)),
    Member("disallowed_policies", JsonString(r.DisallowedPolicies)),
    Member("orphan", JsonBool(r.Orphan)),
    Member("period", JsonString(r.Period)),
    Member("renewable", JsonBool(r.Renewable)),
    Member("explicit_max_ttl", Itoa(r.ExplicitMaxTTL)),
    Member("path_suffix", JsonString(r.PathSuffix)),
    Member("bound_cidrs", JsonStrings(r.BoundCIDRs)) >>)

(***************************************************************************)
(* Response types and their zero values                                    *)
(***************************************************************************)
ZeroCreatedToken ==
  [ID |-> "", Policies |-> << >>, Metadata |-> {}, LeaseDuration |-> 0,
   Renewable |-> FALSE]

ZeroLookedUpToken ==
  [ID |-> "", Accessor |-> "", CreationTime |-> 0, CreationTTL |-> 0,
   DisplayName |-> "", MaxTTL |-> 0, NumUses |-> 0, Orphan |-> FALSE,
   Path |-> "", Policies |-> << >>, TTL |-> 0]

ZeroRenewedToken ==
  [ClientToken |-> "", Accessor |-> "", Policies |-> << >>,
   LeaseDuration |-> 0, Renewable |-> FALSE]

ZeroLookedUpTokenRole ==
  [AllowedPolicies |-> << >>, DisallowedPolicies |-> << >>,
   ExplicitMaxTTL |-> 0, Name |-> "", Orphan |-> FALSE, PathSuffix |-> "",
   Period |-> 0, Renewable |-> FALSE]

\* An operation without a result value, and the nil []string.
NoValue == << >>

(***************************************************************************)
(* What an invocation does that can be observed: the log lines written and *)
(* the transport primitives called, in order.                              *)
(***************************************************************************)
\* c.opts.Logger.Printf(format, body) with format = prefix \o "%v"
Printf(prefix, body) ==
  [kind |-> "log", verb |-> "", path |-> "", body |-> prefix \o body]

\* c.get / c.post / c.list / c.delete at path, with the body sent
Transport(verb, path, body) ==
  [kind |-> "call", verb |-> verb, path |-> path, body |-> body]

Return(ret, err, trace) == [ret |-> ret, err |-> err, trace |-> trace]

(***************************************************************************)
(* The nine operations.  Besides its arguments each takes what its         *)
(* collaborators answer in this invocation: encErr, the error of           *)
(* json.Marshal (NoErr when the body is encoded); tErr, the error of the   *)
(* transport primitive (NoErr on success); and the wrapper value the       *)
(* transport decoded the response into (on a failure, whatever it had      *)
(* decoded by then).                                                       *)
(***************************************************************************)
\* Faulty variant: the decoded ID is not looked at.
CreateTokenUnchecked(opts, encErr, tErr, ct) ==
  LET bs == MarshalTokenOptions(opts)
      sent == << Printf("token create request: ", bs),
                 Transport("post", "/v1/auth/token/create", bs) >>
  IN  IF encErr # NoErr THEN Return(ZeroCreatedToken, encErr, << >>)
      ELSE IF tErr # NoErr THEN Return(ZeroCreatedToken, tErr, sent)
      ELSE Return(ct.Data, NoErr, sent)

\* Faulty variant: the empty-ID failure hands back what was decoded.
CreateTokenPartial(opts, encErr, tErr, ct) ==
  LET bs == MarshalTokenOptions(opts)
      sent == << Printf("token create request: ", bs),
                 Transport("post", "/v1/auth/token/create", bs) >>
  IN  IF encErr # NoErr THEN Return(ZeroCreatedToken, encErr, << >>)
      ELSE IF tErr # NoErr THEN Return(ZeroCreatedToken, tErr, sent)
      ELSE IF ct.Data.ID = ""
        THEN Return(ct.Data, Errorf("create token returned empty id"), sent)
      ELSE Return(ct.Data, NoErr, sent)

\* Faulty variant: the request is logged once the transport has answered
\* without an error.
CreateTokenLogsLate(opts, encErr, tErr, ct) ==
  LET bs == MarshalTokenOptions(opts)
      call == Transport("post", "/v1/auth/token/create", bs)
      sent == << call, Printf("token create request: ", bs) >>
  IN  IF encErr # NoErr THEN Return(ZeroCreatedToken, encErr, << >>)
      ELSE IF tErr # NoErr THEN Return(ZeroCreatedToken, tErr, << call >>)
      ELSE IF ct.Data.ID = ""
        THEN Return(ZeroCreatedToken, Errorf("create token returned empty id"), sent)
      ELSE Return(ct.Data, NoErr, sent)

CreateToken(opts, encErr, tErr, ct) ==
  LET bs == MarshalTokenOptions(opts)
      sent == << Printf("token create request: ", bs),
                 Transport("post", "/v1/auth/token/create", bs) >>
  IN  IF encErr # NoErr THEN Return(ZeroCreatedToken, encErr, << >>)
      ELSE IF tErr # NoErr THEN Return(ZeroCreatedToken, tErr, sent)
      ELSE IF ct.Data.ID = ""
        THEN Return(ZeroCreatedToken, Errorf("create token returned empty id"), sent)
      ELSE Return(ct.Data, NoErr, sent)

\* Faulty variant: the failure message names the token.
LookupTokenNamesId(id, encErr, tErr, tok) ==
  LET bs == MarshalLookupToken([Token |-> id])
      sent == << Transport("post", "/v1/auth/token/lookup", bs) >>
  IN  IF encErr # NoErr THEN Return(ZeroLookedUpToken, encErr, << >>)
      ELSE IF tErr # NoErr
        THEN Return(ZeroLookedUpToken,
                    Wrapf(tErr, "failed to lookup token " \o id), sent)
      ELSE Return(tok.Data, NoErr, sent)

\* Faulty variant: the encoder's error is wrapped like the transport's.
LookupTokenWrapsEncoder(id, encErr, tErr, tok) ==
  LET bs == MarshalLookupToken([Token |-> id])
      sent == << Transport("post", "/v1/auth/token/lookup", bs) >>
  IN  IF encErr # NoErr
        THEN Return(ZeroLookedUpToken, Wrapf(encErr, "failed to lookup token"), << >>)
      ELSE IF tErr # NoErr
        THEN Return(ZeroLookedUpToken, Wrapf(tErr, "failed to lookup token"), sent)
      ELSE Return(tok.Data, NoErr, sent)

LookupToken(id, encErr, tErr, tok) ==
  LET bs == MarshalLookupToken([Token |-> id])
      sent == << Transport("post", "/v1/auth/token/lookup", bs) >>
  IN  IF encErr # NoErr THEN Return(ZeroLookedUpToken, encErr, << >>)
      ELSE IF tErr # NoErr
        THEN Return(ZeroLookedUpToken, Wrapf(tErr, "failed to lookup token"), sent)
      ELSE Return(tok.Data, NoErr, sent)

LookupSelfToken(tErr, tok) ==
  LET sent == << Transport("get", "/v1/auth/token/lookup-self", "") >>
  IN  IF tErr # NoErr
        THEN Return(ZeroLookedUpToken, Wrapf(tErr, "failed to lookup self token"), sent)
      ELSE Return(tok.Data, NoErr, sent)

\* Faulty variant: a failed post is tried once more.
RenewTokenRetries(id, increment, encErr, tErr, tok) ==
  LET bs == MarshalLookupToken([Token |-> id])
      inc == IncrementParam(increment)
      path == fixup("/v1/auth", "token/renew", << "increment", inc >>)
      sent == << Transport("post", path, bs) >>
  IN  IF encErr # NoErr THEN Return(ZeroRenewedToken, encErr, << >>)
      ELSE IF tErr # NoErr
        THEN Return(ZeroRenewedToken, Wrapf(tErr, "failed to renew token"),
                    sent \o sent)
      ELSE Return(tok.Auth, NoErr, sent)

RenewToken(id, increment, encErr, tErr, tok) ==
  LET bs == MarshalLookupToken([Token |-> id])
      inc == IncrementParam(increment)
      path == fixup("/v1/auth", "token/renew", << "increment", inc >>)
      sent == << Transport("post", path, bs) >>
  IN  IF encErr # NoErr THEN Return(ZeroRenewedToken, encErr, << >>)
      ELSE IF tErr # NoErr
        THEN Return(ZeroRenewedToken, Wrapf(tErr, "failed to renew token"), sent)
      ELSE Return(tok.Auth, NoErr, sent)

RenewSelfToken(increment, tErr, tok) ==
  LET inc == IncrementParam(increment)
      path == fixup("/v1/auth", "token/renew-self", << "increment", inc >>)
      sent == << Transport("post", path, "") >>
  IN  IF tErr # NoErr
        THEN Return(ZeroRenewedToken, Wrapf(tErr, "failed to self-renew token"), sent)
      ELSE Return(tok.Auth, NoErr, sent)

\* Faulty variant: the keys are returned in the server's order.
ListTokenRolesUnsorted(tErr, rolesWrapper) ==
  LET requestPath == "/v1/auth/token/roles"
      sent == << Transport("list", requestPath, "") >>
  IN  IF tErr # NoErr
        THEN Return(NoValue,
                    Wrapf(tErr, "failed to list token roles at " \o Quote(requestPath)),
                    sent)
      ELSE Return(rolesWrapper.Data.Keys, NoErr, sent)

ListTokenRoles(tErr, rolesWrapper) ==
  LET requestPath == "/v1/auth/token/roles"
      sent == << Transport("list", requestPath, "") >>
  IN  IF tErr # NoErr
        THEN Return(NoValue,
                    Wrapf(tErr, "failed to list token roles at " \o Quote(requestPath)),
                    sent)
      ELSE Return(SortStrings(rolesWrapper.Data.Keys), NoErr, sent)

\* Faulty variant: the path is built from another field of the options.
CreateTokenRoleAtSuffix(roleData, encErr, tErr) ==
  LET bs == MarshalTokenRoleOptions(roleData)
      requestPath == "/v1/auth/token/roles/" \o roleData.PathSuffix
      sent == << Printf("role-create request: ", bs),
                 Transport("post", requestPath, bs) >>
  IN  IF encErr # NoErr
        THEN Return(NoValue,
                    Wrapf(encErr, "marshalling role data to JSON request body"),
                    << >>)
      ELSE IF tErr # NoErr
        THEN Return(NoValue,
                    Wrapf(tErr, "creating role at " \o Quote(requestPath)),
                    sent)
      ELSE Return(NoValue, NoErr, sent)

CreateTokenRole(roleData, encErr, tErr) ==
  LET bs == MarshalTokenRoleOptions(roleData)
      requestPath == "/v1/auth/token/roles/" \o roleData.Name
      sent == << Printf("role-create request: ", bs),
                 Transport("post", requestPath, bs) >>
  IN  IF encErr # NoErr
        THEN Return(NoValue,
                    Wrapf(encErr, "marshalling role data to JSON request body"),
                    << >>)
      ELSE IF tErr # NoErr
        THEN Return(NoValue,
                    Wrapf(tErr, "creating role at " \o Quote(requestPath)),
                    sent)
      ELSE Return(NoValue, NoErr, sent)

LookupTokenRole(name, tErr, lookedUpTokenRoleWrapper) ==
  LET requestPath == "/v1/auth/token/roles/" \o name
      sent == << Transport("get", requestPath, "") >>
  IN  IF tErr # NoErr
        THEN Return(ZeroLookedUpTokenRole, Wrapf(tErr, "failed to look up role"), sent)
      ELSE Return(lookedUpTokenRoleWrapper.Data, NoErr, sent)

DeleteTokenRole(name, tErr) ==
  LET requestPath == "/v1/auth/token/roles/" \o name
      sent == << Transport("delete", requestPath, "") >>
  IN  IF tErr # NoErr
        THEN Return(NoValue, Wrapf(tErr, "failed to delete role " \o Quote(name)), sent)
      ELSE Return(NoValue, NoErr, sent)

(***************************************************************************)
(* Inputs and collaborators' answers                                       *)
(***************************************************************************)
\* Longest key list a list response carries.
MaxKeys == 3

Ids == {"", "s.a", "token", "n: 5"}

RenewIds == {"s.a"}

\* Errors of the transport primitives: one of them quotes a token, one is
\* itself a wrapped error.
TransportErrs == {<< "503" >>, << "denied s.a" >>, << "post failed", "503" >>}

\* Errors of json.Marshal.
EncodeErrs == {<< "json: unsupported value" >>}

SecValues == {0, 90, 16777216}

NsecValues == {0, 900000000, 999999999}

\* Increments: every sec and nsec above, and the negative ones with a
\* fraction.
Durations ==
  {d \in [neg : BOOLEAN, sec : SecValues, nsec : NsecValues] :
     d.neg => (d.sec # 0 /\ d.nsec # 0)}

TokenOptionsSet ==
  {ZeroTokenOptions,
   [ZeroTokenOptions EXCEPT !.DisplayName = "a<b", !.Orphan = TRUE],
   [Policies |-> << "default", "ops" >>, NoDefaultPolicy |-> TRUE,
    Orphan |-> FALSE, Renewable |-> TRUE, DisplayName |-> "ci", MaxUses |-> 5,
    TTL |-> [neg |-> FALSE, sec |-> 3600, nsec |-> 0],
    MaxTTL |-> [neg |-> FALSE, sec |-> 7200, nsec |-> 500],
    Period |-> [neg |-> FALSE, sec |-> 0, nsec |-> 250]]}

RoleNames == {"", "my-role", "a/b", "q\"r"}

TokenRoleOptionsSet ==
  {[ZeroTokenRoleOptions EXCEPT !.Name = n] : n \in RoleNames} \cup
  {[Name |-> "my-role", AllowedPolicies |-> "default,ops",
    DisallowedPolicies |-> "root", Orphan |-> TRUE, Period |-> "24h",
    Renewable |-> TRUE, ExplicitMaxTTL |-> 3600, PathSuffix |-> "sfx",
    BoundCIDRs |-> << "10.0.0.0/8" >>]}

CreatedTokens ==
  {ZeroCreatedToken,
   [ID |-> "s.a", Policies |-> << "default" >>,
    Metadata |-> {<< "env", "prod" >>}, LeaseDuration |-> 3600,
    Renewable |-> TRUE],
   [ID |-> "", Policies |-> << "default" >>,
    Metadata |-> {<< "env", "prod" >>}, LeaseDuration |-> 3600,
    Renewable |-> TRUE]}

LookedUpTokens ==
  {ZeroLookedUpToken,
   [ID |-> "s.a", Accessor |-> "acc", CreationTime |-> 1500000000,
    CreationTTL |-> 3600, DisplayName |-> "ci", MaxTTL |-> 7200,
    NumUses |-> 5, Orphan |-> TRUE, Path |-> "auth/token/create",
    Policies |-> << "default" >>, TTL |-> 3500]}

RenewedTokens ==
  {ZeroRenewedToken,
   [ClientToken |-> "s.a", Accessor |-> "acc", Policies |-> << "default" >>,
    LeaseDuration |-> 90, Renewable |-> TRUE]}

LookedUpTokenRoles ==
  {ZeroLookedUpTokenRole,
   [AllowedPolicies |-> << "default" >>, DisallowedPolicies |-> << "root" >>,
    ExplicitMaxTTL |-> 3600, Name |-> "my-role", Orphan |-> TRUE,
    PathSuffix |-> "sfx", Period |-> 86400, Renewable |-> TRUE]}

KeyNames == {"b", "ab", "B"}

KeyLists == UNION {[1..n -> KeyNames] : n \in 0..MaxKeys}

\* The keys decoded when list fails: none, or some.
PartialKeyLists == {<< >>, << "b", "ab" >>}

Outcomes(errs) == {NoErr} \cup errs

(***************************************************************************)
(* State: the last invocation of the facade -- the operation, its          *)
(* arguments, what the encoder and the transport answered, what it         *)
(* returned and what it did.  The facade keeps nothing between calls.      *)
(***************************************************************************)
VARIABLES op, args, env, ret, err, trace

vars == << op, args, env, ret, err, trace >>

NoArgs ==
  [opts |-> ZeroTokenOptions, id |-> "", increment |-> ZeroDuration,
   name |-> "", roleData |-> ZeroTokenRoleOptions]

Answer(encErr, tErr, resp) == [encErr |-> encErr, tErr |-> tErr, resp |-> resp]

Init ==
  /\ op = "none"
  /\ args = NoArgs
  /\ env = Answer(NoErr, NoErr, NoValue)
  /\ ret = NoValue
  /\ err = NoErr
  /\ trace = << >>

Invoke(a, e, r) ==
  /\ args' = a
  /\ env' = e
  /\ ret' = r.ret
  /\ err' = r.err
  /\ trace' = r.trace

\* The transport is not reached when the body cannot be encoded.
Reached(encErr, tErr, resp, unset) ==
  encErr # NoErr => (tErr = NoErr /\ resp = unset)

CallCreateToken ==
  \E opts \in TokenOptionsSet, encErr \in Outcomes(EncodeErrs),
     tErr \in Outcomes(TransportErrs), data \in CreatedTokens :
    /\ Reached(encErr, tErr, data, ZeroCreatedToken)
    /\ op' = "CreateToken"
    /\ Invoke([NoArgs EXCEPT !.opts = opts],
              Answer(encErr, tErr, [Data |-> data]),
              CreateToken(opts, encErr, tErr, [Data |-> data]))

CallLookupToken ==
  \E id \in Ids, encErr \in Outcomes(EncodeErrs),
     tErr \in Outcomes(TransportErrs), data \in LookedUpTokens :
    /\ Reached(encErr, tErr, data, ZeroLookedUpToken)
    /\ op' = "LookupToken"
    /\ Invoke([NoArgs EXCEPT !.id = id],
              Answer(encErr, tErr, [Data |-> data]),
              LookupToken(id, encErr, tErr, [Data |-> data]))

CallLookupSelfToken ==
  \E tErr \in Outcomes(TransportErrs), data \in LookedUpTokens :
    /\ op' = "LookupSelfToken"
    /\ Invoke(NoArgs, Answer(NoErr, tErr, [Data |-> data]),
           LookupSelfToken(tErr, [Data |-> data]))

CallRenewToken ==
  \E id \in RenewIds, increment \in Durations, encErr \in Outcomes(EncodeErrs),
     tErr \in Outcomes(TransportErrs), auth \in RenewedTokens :
    /\ Reached(encErr, tErr, auth, ZeroRenewedToken)
    /\ op' = "RenewToken"
    /\ Invoke([NoArgs EXCEPT !.id = id, !.increment = increment],
              Answer(encErr, tErr, [Auth |-> auth]),
              RenewToken(id, increment, encErr, tErr, [Auth |-> auth]))

CallRenewSelfToken ==
  \E increment \in Durations, tErr \in Outcomes(TransportErrs),
     auth \in RenewedTokens :
    /\ op' = "RenewSelfToken"
    /\ Invoke([NoArgs EXCEPT !.increment = increment],
           Answer(NoErr, tErr, [Auth |-> auth]),
           RenewSelfToken(increment, tErr, [Auth |-> auth]))

CallListTokenRoles ==
  \E tErr \in Outcomes(TransportErrs), keys \in KeyLists :
    /\ tErr # NoErr => keys \in PartialKeyLists
    /\ op' = "ListTokenRoles"
    /\ Invoke(NoArgs,
              Answer(NoErr, tErr, [Data |-> [Keys |-> keys]]),
              ListTokenRoles(tErr, [Data |-> [Keys |-> keys]]))

CallCreateTokenRole ==
  \E roleData \in TokenRoleOptionsSet, encErr \in Outcomes(EncodeErrs),
     tErr \in Outcomes(TransportErrs) :
    /\ Reached(encErr, tErr, NoValue, NoValue)
    /\ op' = "CreateTokenRole"
    /\ Invoke([NoArgs EXCEPT !.roleData = roleData],
              Answer(encErr, tErr, NoValue),
              CreateTokenRole(roleData, encErr, tErr))

CallLookupTokenRole ==
  \E name \in RoleNames, tErr \in Outcomes(TransportErrs),
     data \in LookedUpTokenRoles :
    /\ op' = "LookupTokenRole"
    /\ Invoke([NoArgs EXCEPT !.name = name],
           Answer(NoErr, tErr, [Data |-> data]),
           LookupTokenRole(name, tErr, [Data |-> data]))

CallDeleteTokenRole ==
  \E name \in RoleNames, tErr \in Outcomes(TransportErrs) :
    /\ op' = "DeleteTokenRole"
    /\ Invoke([NoArgs EXCEPT !.name = name],
           Answer(NoErr, tErr, NoValue), DeleteTokenRole(name, tErr))

Next ==
  \/ CallCreateToken
  \/ CallLookupToken
  \/ CallLookupSelfToken
  \/ CallRenewToken
  \/ CallRenewSelfToken
  \/ CallListTokenRoles
  \/ CallCreateTokenRole
  \/ CallLookupTokenRole
  \/ CallDeleteTokenRole

Spec == Init /\ [][Next]_vars

(***************************************************************************)
(* Properties                                                              *)
(***************************************************************************)
\* t occurs in s.
Contains(s, t) ==
  \E i \in 1..(Len(s) - Len(t) + 1) : SubSeq(s, i, i + Len(t) - 1) = t

\* s ends with t.
HasSuffix(s, t) ==
  Len(t) <= Len(s) /\ SubSeq(s, Len(s) - Len(t) + 1, Len(s)) = t

\* The whole seconds of the duration d, its fraction dropped: the sign and
\* the integer quotient of its nanoseconds by 10^9.
WholeSeconds(d) == IF d.neg THEN -d.sec ELSE d.sec

\* The transport primitives called in the last invocation, in order.
Calls == SelectSeq(trace, LAMBDA e : e.kind = "call")

\* The log lines written in the last invocation, in order.
Logs == SelectSeq(trace, LAMBDA e : e.kind = "log")

Invoked == op # "none"

\* The body was encoded and the transport primitive failed.
TransportFailed == Invoked /\ env.encErr = NoErr /\ env.tErr # NoErr

Encoding == {"CreateToken", "LookupToken", "RenewToken", "CreateTokenRole"}

IsSorted(ss) == \A i \in 1..(Len(ss) - 1) : ~StrLess(ss[i + 1], ss[i])

Count(x, ss) == Cardinality({i \in DOMAIN ss : ss[i] = x})

\* a and b hold the same elements with the same multiplicities.
SamePermutation(a, b) ==
  /\ Len(a) = Len(b)
  /\ \A i \in DOMAIN a : Count(a[i], a) = Count(a[i], b)

\* The character a JSON \uXXXX escape stands for (those the encoder writes).
UnicodeChar(hex) ==
  IF hex = "003c" THEN "<"
  ELSE IF hex = "003e" THEN ">"
  ELSE IF hex = "0026" THEN "&"
  ELSE "?"

\* The string a JSON string literal denotes; s starts after the opening
\* quote, and the literal ends at the first quote that is not escaped.
RECURSIVE JsonDecode(_)
JsonDecode(s) ==
  IF s = "" \/ Chr(s, 1) = "\"" THEN ""
  ELSE IF Chr(s, 1) = "\\"
    THEN IF Chr(s, 2) = "u"
           THEN UnicodeChar(SubSeq(s, 3, 6)) \o JsonDecode(SubSeq(s, 7, Len(s)))
         ELSE Chr(s, 2) \o JsonDecode(SubSeq(s, 3, Len(s)))
  ELSE Chr(s, 1) \o JsonDecode(Rest(s))

\* The decoded value of the string member `key` of the JSON object body.
JsonField(body, key) ==
  LET tag == "\"" \o key \o "\":\""
      at == CHOOSE i \in 1..Len(body) :
              /\ SubSeq(body, i, i + Len(tag) - 1) = tag
              /\ \A j \in 1..(i - 1) : SubSeq(body, j, j + Len(tag) - 1) # tag
  IN  JsonDecode(SubSeq(body, at + Len(tag), Len(body)))

\* C1: a transport failure on any of the nine operations surfaces as a
\* non-nil error that wraps the transport error with a message of the
\* operation: the returned error is never the bare transport error.
C1_TransportFailureWrapped ==
  TransportFailed =>
    /\ err # NoErr
    /\ err # env.tErr
    /\ Len(err) = Len(env.tErr) + 1
    /\ Tail(err) = env.tErr
    /\ err[1] # ""

\* C2: CreateToken returns a non-nil error whenever the decoded response has
\* an empty ID although the transport reported success, so a CreatedToken
\* returned with a nil error has a non-empty ID.
C2_EmptyIdIsError ==
  op = "CreateToken" =>
    /\ (env.encErr = NoErr /\ env.tErr = NoErr /\ env.resp.Data.ID = ""
          => err # NoErr)
    /\ (err = NoErr => ret.ID # "")

C2_Witness ==
  /\ op = "CreateToken"
  /\ env.encErr = NoErr
  /\ env.tErr = NoErr
  /\ env.resp.Data.ID = ""
  /\ env.resp.Data.Policies # << >>
  /\ err = << "create token returned empty id" >>

\* The ids a failed lookup must not disclose: the id queried, and for
\* LookupSelfToken the caller's own token, whichever it is.
Secrets == IF op = "LookupToken" THEN {args.id} ELSE Ids

\* C3 as stated: for every id, when the transport error's text does not
\* contain the id, the error string of LookupToken / LookupSelfToken does
\* not contain it either.
C3_NoIdInError ==
  op \in {"LookupToken", "LookupSelfToken"} /\ TransportFailed =>
    \A id \in Secrets :
      ~Contains(ErrorString(env.tErr), id) => ~Contains(ErrorString(err), id)

LookupPrefix == IF op = "LookupToken" THEN "failed to lookup token"
                ELSE "failed to lookup self token"

\* C3 amended: the error string of a failed LookupToken / LookupSelfToken is
\* the operation's fixed prefix, ": " and the transport error's text, the
\* same whatever the id; it contains an id only if that text does.
C3_ErrorIsFixedPrefix ==
  op \in {"LookupToken", "LookupSelfToken"} /\ TransportFailed =>
    /\ ErrorString(err) = LookupPrefix \o ": " \o ErrorString(env.tErr)
    /\ \A id \in Secrets :
         Contains(ErrorString(err), id) =>
           Contains(LookupPrefix \o ": " \o ErrorString(env.tErr), id)
    /\ op = "LookupToken" =>
         \A id \in Ids :
           LookupToken(id, NoErr, env.tErr, env.resp).err = err

C3_Witness ==
  /\ op = "LookupToken"
  /\ TransportFailed
  /\ args.id = "s.a"
  /\ ~Contains(ErrorString(env.tErr), args.id)
  /\ ErrorString(err) = "failed to lookup token: post failed: 503"

\* C4 as stated: in each of the four operations that encode a body, an
\* encoder failure is returned as it is, and no transport primitive is
\* called.
C4_EncoderErrorUnwrapped ==
  op \in Encoding /\ env.encErr # NoErr =>
    /\ err = env.encErr
    /\ Calls = << >>

\* C4 amended: on an encoder failure no transport primitive is called (and
\* nothing is logged); CreateToken, LookupToken and RenewToken return the
\* encoder's error as it is, CreateTokenRole returns it wrapped with
\* "marshalling role data to JSON request body".
C4_EncoderErrorSurfaced ==
  op \in Encoding /\ env.encErr # NoErr =>
    /\ trace = << >>
    /\ op # "CreateTokenRole" => err = env.encErr
    /\ op = "CreateTokenRole" =>
         err = << "marshalling role data to JSON request body" >> \o env.encErr

C4_Witness ==
  /\ op = "CreateTokenRole"
  /\ env.encErr # NoErr
  /\ Len(err) = Len(env.encErr) + 1
  /\ trace = << >>

\* C5: RenewToken and RenewSelfToken send the query parameter increment
\* equal to the duration's whole seconds, the fraction truncated and never
\* rounded, and both compute the same value for the same duration.
C5_IncrementTruncated ==
  op \in {"RenewToken", "RenewSelfToken"} /\ env.encErr = NoErr =>
    LET renew == RenewToken("s.a", args.increment, NoErr, NoErr,
                            [Auth |-> ZeroRenewedToken])
        renewSelf == RenewSelfToken(args.increment, NoErr,
                                    [Auth |-> ZeroRenewedToken])
        query == "?increment=" \o Itoa(WholeSeconds(args.increment))
    IN  /\ Len(Calls) = 1
        /\ HasSuffix(Calls[1].path, query)
        /\ HasSuffix(renew.trace[1].path, query)
        /\ HasSuffix(renewSelf.trace[1].path, query)

\* C6: on success ListTokenRoles returns the server's keys in ascending
\* lexicographic order: a sorted permutation of the key list, so the same
\* keys in any other order give the identical result.
C6_ListSorted ==
  op = "ListTokenRoles" /\ env.tErr = NoErr =>
    /\ err = NoErr
    /\ IsSorted(ret)
    /\ SamePermutation(ret, env.resp.Data.Keys)
    /\ \A other \in KeyLists :
         SamePermutation(other, env.resp.Data.Keys) =>
           ListTokenRoles(NoErr, [Data |-> [Keys |-> other]]).ret = ret

C6_Witness ==
  /\ op = "ListTokenRoles"
  /\ env.tErr = NoErr
  /\ env.resp.Data.Keys = << "b", "B", "ab" >>
  /\ ret = << "B", "ab", "b" >>

\* C7: an invocation calls the transport at most once, exactly once when
\* the body is encoded, and returns: a failed call is not retried.
C7_OneTransportCall ==
  Invoked =>
    /\ Len(Calls) <= 1
    /\ env.encErr = NoErr => Len(Calls) = 1
    /\ env.encErr # NoErr => Len(Calls) = 0

C7_Witness ==
  /\ op = "RenewToken"
  /\ TransportFailed
  /\ Len(Calls) = 1
  /\ err # NoErr

RolePath(name) == "/v1/auth/token/roles/" \o name

\* C8: CreateTokenRole posts to /v1/auth/token/roles/<Name>, Name unescaped,
\* and the role_name member of the body sent in that call is that Name;
\* LookupTokenRole and DeleteTokenRole of a name address the same path with
\* get and delete.
C8_RolePathAndBody ==
  /\ op = "CreateTokenRole" /\ env.encErr = NoErr =>
       /\ Len(Calls) = 1
       /\ Calls[1].verb = "post"
       /\ Calls[1].path = RolePath(args.roleData.Name)
       /\ JsonField(Calls[1].body, "role_name") = args.roleData.Name
  /\ op = "LookupTokenRole" =>
       /\ Len(Calls) = 1
       /\ Calls[1].verb = "get"
       /\ Calls[1].path = RolePath(args.name)
  /\ op = "DeleteTokenRole" =>
       /\ Len(Calls) = 1
       /\ Calls[1].verb = "delete"
       /\ Calls[1].path = RolePath(args.name)

C8_Witness ==
  /\ op = "CreateTokenRole"
  /\ env.encErr = NoErr
  /\ args.roleData.Name = "q\"r"
  /\ Calls[1].path = "/v1/auth/token/roles/q\"r"
  /\ Contains(Calls[1].body, "\"role_name\":\"q\\\"r\"")

\* The invocation wrote a log line carrying the body and then called the
\* transport with that body.
LoggedBeforeSent ==
  \E i \in DOMAIN trace, j \in DOMAIN trace :
    /\ i < j
    /\ trace[i].kind = "log"
    /\ trace[j].kind = "call"
    /\ HasSuffix(trace[i].body, trace[j].body)

\* C9 as stated: each of the four operations that send a JSON body logs
\* the body before the transport call, also when the call fails.
C9_BodyLoggedBeforeSend ==
  op \in Encoding /\ env.encErr = NoErr => LoggedBeforeSent

\* C9 amended: CreateToken and CreateTokenRole log the serialized body
\* before the transport call, also when the call fails; LookupToken and
\* RenewToken, whose body carries the token, log nothing.
C9_OptionsLoggedBeforeSend ==
  /\ op \in {"CreateToken", "CreateTokenRole"} /\ env.encErr = NoErr =>
       /\ LoggedBeforeSent
       /\ Len(trace) = 2
       /\ trace[1].body =
            (IF op = "CreateToken" THEN "token create request: "
             ELSE "role-create request: ") \o trace[2].body
  /\ op \in {"LookupToken", "RenewToken"} => Logs = << >>

C9_Witness ==
  /\ op = "CreateToken"
  /\ TransportFailed
  /\ Len(trace) = 2
  /\ trace[1].kind = "log"
  /\ trace[2].kind = "call"
  /\ trace[1].body = "token create request: " \o trace[2].body

\* The zero value of an operation's result.
ZeroResult ==
  CASE op = "CreateToken" -> ZeroCreatedToken
    [] op \in {"LookupToken", "LookupSelfToken"} -> ZeroLookedUpToken
    [] op \in {"RenewToken", "RenewSelfToken"} -> ZeroRenewedToken
    [] op = "LookupTokenRole" -> ZeroLookedUpTokenRole
    [] OTHER -> NoValue

\* The inner payload of the response the transport decoded.
Payload ==
  CASE op \in {"CreateToken", "LookupToken", "LookupSelfToken", "LookupTokenRole"}
         -> env.resp.Data
    [] op \in {"RenewToken", "RenewSelfToken"} -> env.resp.Auth
    [] op = "ListTokenRoles" -> env.resp.Data.Keys
    [] OTHER -> NoValue

\* C10 as stated: with a non-nil error the result is the zero value, never
\* partly decoded data; with a nil error it is exactly the decoded payload.
C10_ZeroOrPayload ==
  Invoked =>
    /\ err # NoErr => ret = ZeroResult
    /\ err = NoErr => ret = Payload

\* C10 amended: with a non-nil error the result is the zero value; with a
\* nil error it is exactly the decoded payload, except that ListTokenRoles
\* returns the payload's keys sorted ascending.
C10_ZeroOrPayloadSorted ==
  Invoked =>
    /\ err # NoErr => ret = ZeroResult
    /\ err = NoErr /\ op # "ListTokenRoles" => ret = Payload
    /\ err = NoErr /\ op = "ListTokenRoles" =>
         IsSorted(ret) /\ SamePermutation(ret, Payload)

C10_Witness ==
  /\ op = "CreateToken"
  /\ env.tErr = NoErr
  /\ env.encErr = NoErr
  /\ env.resp.Data.ID = ""
  /\ env.resp.Data.LeaseDuration # 0
  /\ err # NoErr
  /\ ret = ZeroCreatedToken

====
